---- MODULE Spec2Model ----
(***************************************************************************)
(* Verification model of vba-blocks: the lockfile codec and validity       *)
(* check (src/src/reporter.ts, lines 196-502), the HTTPS download helper   *)
(* (src/packages/cli/src/utils/download.ts), the export action             *)
(* (src/src/actions/export-project.ts) and the changeset application       *)
(* (src/src/build/apply-changeset.ts).                                     *)
(*                                                                         *)
(* Strings that are formatted or parsed by the code are sequences of       *)
(* tokens, so that formatting and parsing are computed, not assumed.       *)
(* Objects are records; a field that is absent in the object is absent     *)
(* from the record's domain.                                               *)
(***************************************************************************)
EXTENDS Integers, Sequences, FiniteSets, TLC

VARIABLES
  \* lockfile validity check (isLockfileValid, satisfiesDependency)
  lockfile, workspace, manifests, valid,
  value, comparison, satisfied,
  \* lockfile codec (toToml, fromToml): the lockfile as passed, the lockfile
  \* object (toToml sorts its packages in place), the text written, the
  \* lockfile read back from it, the text written from that, and the step
  tomlInput, tomlLockfile, tomlText, tomlRead, tomlText2, tomlStep,
  \* readLockfile: the file at <dir>/vba-block.lock and the call's outcome
  lockPath, readResult,
  \* download: the calls of download (the first, then one per redirect
  \* followed) and the files at the destinations
  dlCalls, dlFiles,
  \* exportProject: the options and the project's manifest, the
  \* position in the action, the chosen target and staging directory, the
  \* directories that exist, the error in flight, the calls made so far and
  \* how the action ended
  exOptions, exManifest, exPc, exTarget, exStaging, exDirs, exError,
  exCalls, exOutcome,
  \* applyChangeset: the changeset, the files of the project, the manifest's
  \* src[] list and the patches handed to applyChanges, the batch being run
  \* and the step each item has reached, the paths written or removed, and
  \* the files and src[] at the call
  apChangeset, apFiles, apSrc, apPatches, apPhase, apProgress, apTouched,
  apFiles0, apSrc0

lockVars == <<lockfile, workspace, manifests, valid>>
pairVars == <<value, comparison, satisfied>>
tomlVars == <<tomlInput, tomlLockfile, tomlText, tomlRead, tomlText2, tomlStep>>
readVars == <<lockPath, readResult>>
dlVars == <<dlCalls, dlFiles>>
exVars ==
  <<exOptions, exManifest, exPc, exTarget, exStaging, exDirs, exError,
    exCalls, exOutcome>>
apVars ==
  <<apChangeset, apFiles, apSrc, apPatches, apPhase, apProgress, apTouched,
    apFiles0, apSrc0>>

vars == <<lockVars, pairVars, tomlVars, readVars, dlVars, exVars, apVars>>

\* A variable of a part of the program that the specification at hand does not run.
Idle == "idle"

\* The outcome of a call that has not been made yet.
Pending == "pending"

---------------------------------------------------------------------------
(* Bounds                                                                  *)

MaxDependencies == 2
MaxMembers == 2
MaxPackages == 3
MaxRedirects == 2
BodyChunks == 2
MaxComponents == 3

---------------------------------------------------------------------------
(* Data model: versions, ranges, dependencies, snapshots                   *)

\* The items of an array.
Range(items) == {items[i] : i \in DOMAIN items}

\* Lists of at most n items of S (arrays of the program).
ListsUpTo(S, n) == UNION {[1..k -> S] : k \in 0..n}

LOCKFILE_VERSION == "1"

Versions == {"1.0.0", "1.1.0", "2.0.0"}

Ranges == {"^1.0.0", "^1.1.0", "1.0.0", "^2.0.0"}

\* semver.satisfies(version, range) on the versions and ranges of the model.
satisfiesSemver(version, range) ==
  CASE range = "^1.0.0" -> version \in {"1.0.0", "1.1.0"}
    [] range = "^1.1.0" -> version = "1.1.0"
    [] range = "1.0.0" -> version = "1.0.0"
    [] range = "^2.0.0" -> version = "2.0.0"
    [] OTHER -> version = range

has(object, field) == field \in DOMAIN object

isRegistryDependency(dependency) == has(dependency, "registry")

isPathDependency(dependency) == has(dependency, "path")

isGitDependency(dependency) == has(dependency, "git")

\* loadManifest(dir): the manifest found at dir, or the manifest-not-found error.
NoManifest == "manifest-not-found"

loadManifest(disk, path) == disk[path]

\* Outcomes of a Promise<boolean>: resolved true, resolved false, or rejected
\* with the error loadManifest threw.
BoolTrue == "true"

BoolFalse == "false"

toBool(b) == IF b THEN BoolTrue ELSE BoolFalse

satisfiesDependencyNoPath(value_, comparison_, disk) ==
  IF isRegistryDependency(comparison_)
  THEN toBool(isRegistryDependency(value_)
              /\ satisfiesSemver(comparison_.version, value_.version))
  ELSE IF isPathDependency(comparison_)
  THEN IF ~isPathDependency(value_) THEN BoolFalse
       ELSE LET manifest == loadManifest(disk, value_.path)
            IN IF manifest = NoManifest THEN NoManifest
               ELSE toBool(manifest = comparison_.version)
  ELSE IF isGitDependency(comparison_)
  THEN IF ~isGitDependency(value_) THEN BoolFalse
       ELSE IF has(value_, "rev") /\ has(comparison_, "rev")
            THEN toBool(value_.rev = comparison_.rev)
       ELSE IF has(value_, "tag") /\ has(comparison_, "tag")
            THEN toBool(value_.tag = comparison_.tag)
       ELSE IF has(value_, "branch") /\ has(comparison_, "branch")
            THEN toBool(value_.branch = comparison_.branch)
       ELSE BoolFalse
  ELSE BoolFalse

satisfiesDependency(value_, comparison_, disk) ==
  IF isRegistryDependency(comparison_)
  THEN toBool(isRegistryDependency(value_)
              /\ satisfiesSemver(comparison_.version, value_.version))
  ELSE IF isPathDependency(comparison_)
  THEN IF ~isPathDependency(value_) THEN BoolFalse
       ELSE IF value_.path # comparison_.path THEN BoolFalse
       ELSE LET manifest == loadManifest(disk, value_.path)
            IN IF manifest = NoManifest THEN NoManifest
               ELSE toBool(manifest = comparison_.version)
  ELSE IF isGitDependency(comparison_)
  THEN IF ~isGitDependency(value_) THEN BoolFalse
       ELSE IF has(value_, "rev") /\ has(comparison_, "rev")
            THEN toBool(value_.rev = comparison_.rev)
       ELSE IF has(value_, "tag") /\ has(comparison_, "tag")
            THEN toBool(value_.tag = comparison_.tag)
       ELSE IF has(value_, "branch") /\ has(comparison_, "branch")
            THEN toBool(value_.branch = comparison_.branch)
       ELSE BoolFalse
  ELSE BoolFalse

\* byName[name] after forEach(item => (byName[item.name] = item)): the index of
\* the last item of that name, 0 when there is none.
byNameIndex(items, name) ==
  LET found == {i \in 1..Len(items) : items[i].name = name}
  IN IF found = {} THEN 0 ELSE CHOOSE i \in found : \A j \in found : j <= i

RECURSIVE compareDependenciesFrom(_, _, _, _)
compareDependenciesFrom(current, locked, i, disk) ==
  IF i > Len(locked.dependencies) THEN BoolTrue
  ELSE LET dependency == locked.dependencies[i]
           k == byNameIndex(current.dependencies, dependency.name)
       IN IF k = 0 THEN BoolFalse
          ELSE LET r == satisfiesDependency(current.dependencies[k], dependency, disk)
               IN IF r = BoolTrue
                  THEN compareDependenciesFrom(current, locked, i + 1, disk)
                  ELSE r

compareDependencies(current, locked, disk) ==
  IF Len(current.dependencies) # Len(locked.dependencies) THEN BoolFalse
  ELSE compareDependenciesFrom(current, locked, 1, disk)

compareManifests(current, locked, disk) ==
  IF current.name # locked.name THEN BoolFalse
  ELSE IF current.version # locked.version THEN BoolFalse
  ELSE compareDependencies(current, locked, disk)

RECURSIVE compareMembersFrom(_, _, _, _)
compareMembersFrom(lock, ws, i, disk) ==
  IF i > Len(lock.workspace.members) THEN BoolTrue
  ELSE LET member == lock.workspace.members[i]
           k == byNameIndex(ws.members, member.name)
       IN IF k = 0 THEN BoolFalse
          ELSE LET r == compareManifests(ws.members[k], member, disk)
               IN IF r = BoolTrue THEN compareMembersFrom(lock, ws, i + 1, disk)
                  ELSE r

isLockfileValid(lock, ws, disk) ==
  IF ~has(lock, "metadata") \/ lock.metadata.version # LOCKFILE_VERSION THEN BoolFalse
  ELSE LET root == compareManifests(ws.root, lock.workspace.root, disk)
       IN IF root # BoolTrue THEN root
          ELSE IF Len(lock.workspace.members) # Len(ws.members) THEN BoolFalse
          ELSE compareMembersFrom(lock, ws, 1, disk)

---------------------------------------------------------------------------
(* Strings the lockfile codec formats and parses: sequences of tokens.     *)
(* "/" separates the segments of a path, "+" and "#" the parts of a        *)
(* source, " " the parts of a dependency id.                               *)

\* The index of the first token t of s, 0 when s holds none.
IndexOf(s, t) ==
  LET found == {i \in 1..Len(s) : s[i] = t}
  IN IF found = {} THEN 0 ELSE CHOOSE i \in found : \A j \in found : i <= j

\* s.split(t): what precedes the first t, and what follows it.
Before(s, t) == IF IndexOf(s, t) = 0 THEN s ELSE SubSeq(s, 1, IndexOf(s, t) - 1)

After(s, t) == IF IndexOf(s, t) = 0 THEN <<>> ELSE SubSeq(s, IndexOf(s, t) + 1, Len(s))

\* The segments of a path: its tokens between separators.
Segments(path) == SelectSeq(path, LAMBDA t : t # "/")

isAbsolute(path) == path # <<>> /\ Head(path) = "/"

endsWithSlash(path) == path # <<>> /\ path[Len(path)] = "/"

\* segments.join("/")
RECURSIVE joinSegments(_)
joinSegments(segments) ==
  IF segments = <<>> THEN <<>>
  ELSE IF Len(segments) = 1 THEN segments
  ELSE <<Head(segments), "/">> \o joinSegments(Tail(segments))

\* Resolution of "." and ".." in a list of segments (path.normalize).
RECURSIVE normalizeSegments(_, _, _)
normalizeSegments(done, rest, absolute) ==
  IF rest = <<>> THEN done
  ELSE IF Head(rest) = "." THEN normalizeSegments(done, Tail(rest), absolute)
  ELSE IF Head(rest) = ".."
  THEN IF done # <<>> /\ done[Len(done)] # ".."
       THEN normalizeSegments(SubSeq(done, 1, Len(done) - 1), Tail(rest), absolute)
       ELSE IF absolute THEN normalizeSegments(done, Tail(rest), absolute)
       ELSE normalizeSegments(Append(done, ".."), Tail(rest), absolute)
  ELSE normalizeSegments(Append(done, Head(rest)), Tail(rest), absolute)

\* join(a, b) of utils/path: a + "/" + b, normalized; a trailing separator is kept.
join(a, b) ==
  LET whole == IF a = <<>> THEN b ELSE IF b = <<>> THEN a ELSE a \o <<"/">> \o b
      absolute == isAbsolute(whole)
      segments == normalizeSegments(<<>>, Segments(whole), absolute)
      body == joinSegments(segments)
  IN IF absolute
     THEN IF segments = <<>> THEN <<"/">>
          ELSE <<"/">> \o body \o (IF endsWithSlash(whole) THEN <<"/">> ELSE <<>>)
     ELSE IF segments = <<>> THEN (IF endsWithSlash(whole) THEN <<".", "/">> ELSE <<".">>)
          ELSE body \o (IF endsWithSlash(whole) THEN <<"/">> ELSE <<>>)

\* The length of the longest common prefix of two lists of segments.
RECURSIVE commonPrefix(_, _)
commonPrefix(a, b) ==
  IF a = <<>> \/ b = <<>> THEN 0
  ELSE IF Head(a) # Head(b) THEN 0
  ELSE 1 + commonPrefix(Tail(a), Tail(b))

\* relative(from, to) of utils/path, both absolute: one ".." per segment of
\* from outside the common prefix, then the rest of to; no trailing separator.
relative(from, to) ==
  LET f == normalizeSegments(<<>>, Segments(from), TRUE)
      t == normalizeSegments(<<>>, Segments(to), TRUE)
      c == commonPrefix(f, t)
  IN joinSegments([i \in 1..(Len(f) - c) |-> ".."] \o SubSeq(t, c + 1, Len(t)))

\* trailing(path) of utils/path: path with a trailing separator.
trailing(path) == IF endsWithSlash(path) THEN path ELSE path \o <<"/">>

\* getSourceParts(source): "{type}+{value}[#{details}]".
getSourceParts(source) ==
  [ type |-> Before(source, "+"),
    value |-> Before(After(source, "+"), "#"),
    details |-> After(After(source, "+"), "#") ]

getRegistrationSource(type, value_, details) ==
  type \o <<"+">> \o value_ \o (IF details = <<>> THEN <<>> ELSE <<"#">> \o details)

getRegistrationId(name, version) == <<name, "@", version>>

\* toDependency(registration): the pinned dependency a registration stands for.
toDependency(registration) ==
  LET parts == getSourceParts(registration.source)
  IN IF parts.type = <<"registry">>
     THEN [name |-> registration.name, version |-> registration.version,
           registry |-> parts.value]
     ELSE IF parts.type = <<"git">>
     THEN [name |-> registration.name, git |-> parts.value, rev |-> parts.details]
     ELSE [name |-> registration.name, path |-> parts.value,
           version |-> registration.version]

\* getRegistration(graph, dependency): the index of the first registration of
\* the dependency's name, 0 for undefined.
getRegistration(packages, dependency) ==
  LET found == {i \in 1..Len(packages) : packages[i].name = dependency.name}
  IN IF found = {} THEN 0 ELSE CHOOSE i \in found : \A j \in found : i <= j

---------------------------------------------------------------------------
(* The lockfile codec: toToml and fromToml                                 *)

VBA_BLOCKS_VERSION == "0.0.0"

\* The order of a.name < b.name on the names of the model.
NameOrder == <<"a", "b", "c", "d">>

nameLess(a, b) == IndexOf(NameOrder, a) < IndexOf(NameOrder, b)

\* A failed assert (ok(...)) and the value of a call that threw it.
AssertionError == "AssertionError"

Threw(error) == [ok |-> FALSE, error |-> error]

Returned(result) == [ok |-> TRUE, value |-> result]

prepareSource(source, dir) ==
  LET parts == getSourceParts(source)
  IN IF parts.type # <<"path">> THEN source
     ELSE getRegistrationSource(parts.type, trailing(relative(dir, parts.value)),
                                parts.details)

getSourceNoJoin(source, dir) == source

getSource(source, dir) ==
  LET parts == getSourceParts(source)
  IN IF parts.type # <<"path">> THEN source
     ELSE getRegistrationSource(parts.type, join(dir, parts.value), parts.details)

\* toDependencyId: "{name} {version} {source}"; <<>> stands for the failed
\* assert when no package is found for the dependency.
toDependencyId(dependency, packages, dir) ==
  LET k == getRegistration(packages, dependency)
  IN IF k = 0 THEN <<>>
     ELSE <<dependency.name, " ", packages[k].version, " ">>
            \o prepareSource(packages[k].source, dir)

dependencyIds(dependencies, packages, dir) ==
  [i \in 1..Len(dependencies) |-> toDependencyId(dependencies[i], packages, dir)]

prepareManifest(manifest, packages, dir) ==
  [ name |-> manifest.name,
    version |-> manifest.version,
    dependencies |-> dependencyIds(manifest.dependencies, packages, dir) ]

\* Array.prototype.sort with the comparator of toToml: a stable sort by name.
RECURSIVE insertByName(_, _)
insertByName(sorted, registration) ==
  IF sorted = <<>> THEN <<registration>>
  ELSE IF nameLess(registration.name, Head(sorted).name)
  THEN <<registration>> \o sorted
  ELSE <<Head(sorted)>> \o insertByName(Tail(sorted), registration)

RECURSIVE sortByNameFrom(_, _)
sortByNameFrom(sorted, rest) ==
  IF rest = <<>> THEN sorted
  ELSE sortByNameFrom(insertByName(sorted, Head(rest)), Tail(rest))

unsorted(packages) == packages

sortByName(packages) == sortByNameFrom(<<>>, packages)

preparePackage(registration, packages, dir) ==
  [ name |-> registration.name,
    version |-> registration.version,
    source |-> prepareSource(registration.source, dir),
    dependencies |-> dependencyIds(registration.dependencies, packages, dir) ]

\* The tree toToml hands to the TOML emitter. The emitter and the parser are
\* outside the program's core and round-trip a tree.
toTomlTree(lock, dir) ==
  LET sorted == sortByName(lock.packages)
  IN [ metadata |-> [version |-> LOCKFILE_VERSION],
       root |-> prepareManifest(lock.workspace.root, lock.packages, dir),
       members |-> [i \in 1..Len(lock.workspace.members) |->
                      prepareManifest(lock.workspace.members[i], lock.packages, dir)],
       packages |-> [i \in 1..Len(sorted) |-> preparePackage(sorted[i], sorted, dir)] ]

treeIds(tree) ==
  Range(tree.root.dependencies)
  \cup UNION {Range(tree.members[i].dependencies) : i \in 1..Len(tree.members)}
  \cup UNION {Range(tree.packages[i].dependencies) : i \in 1..Len(tree.packages)}

\* toToml(lockfile, dir): the text, a header comment line and the emitted tree;
\* it throws when a dependency has no package in lockfile.packages.
toToml(lock, dir) ==
  LET tree == toTomlTree(lock, dir)
  IN IF <<>> \in treeIds(tree) THEN Threw(AssertionError)
     ELSE Returned([comment |-> VBA_BLOCKS_VERSION, toml |-> tree])

\* The text that cannot be parsed as TOML.
Garbage == [comment |-> "", garbage |-> TRUE]

\* parseToml(text): the tree of the text; a syntax error is thrown.
parseToml(text) ==
  IF has(text, "toml") THEN Returned(text.toml) ELSE Threw("TomlError")

\* id.split(' ', 1): the name of a dependency id.
idName(id) == Before(id, " ")

\* byName.get(name) after byName.set(name, ...) for each package in order: the
\* index of the last package of that name, 0 for undefined.
byNameGet(packages, name) ==
  LET found == {i \in 1..Len(packages) : <<packages[i].name>> = name}
  IN IF found = {} THEN 0 ELSE CHOOSE i \in found : \A j \in found : j <= i

getDependencyWholeId(id, registrations) ==
  LET k == byNameGet(registrations, id)
  IN IF k = 0 THEN Threw(AssertionError) ELSE Returned(toDependency(registrations[k]))

\* getDependency(id, byName): the dependency registered under the id's name.
getDependency(id, registrations) ==
  LET k == byNameGet(registrations, idName(id))
  IN IF k = 0 THEN Threw(AssertionError) ELSE Returned(toDependency(registrations[k]))

\* ok(name && version && source && Array.isArray(dependencies))
validPackage(value_) ==
  has(value_, "name") /\ has(value_, "version") /\ has(value_, "source")
  /\ has(value_, "dependencies")

\* ok(name && version && Array.isArray(value.dependencies))
validManifest(value_) ==
  has(value_, "name") /\ has(value_, "version") /\ has(value_, "dependencies")

hydrate(ids, registrations) ==
  [i \in 1..Len(ids) |-> getDependency(ids[i], registrations)]

allReturned(results) == \A i \in 1..Len(results) : results[i].ok

values(results) == [i \in 1..Len(results) |-> results[i].value]

\* toManifest(value, byName), for a value that passed validManifest.
toManifest(value_, registrations) ==
  [ name |-> value_.name,
    version |-> value_.version,
    dependencies |-> values(hydrate(value_.dependencies, registrations)) ]

\* parsed.packages || [], parsed.members || []
arrayOf(parsed, field) == IF has(parsed, field) THEN parsed[field] ELSE <<>>

\* The first pass of fromToml over a valid package.
firstPass(value_, dir) ==
  [ id |-> getRegistrationId(value_.name, value_.version),
    name |-> value_.name,
    version |-> value_.version,
    source |-> getSource(value_.source, dir),
    dependencies |-> value_.dependencies ]

\* fromToml(toml, dir): the lockfile, or the error thrown by the parser or by
\* a failed assert.
fromToml(text, dir) ==
  LET parse == parseToml(text)
  IN IF ~parse.ok THEN parse
     ELSE LET parsed == parse.value
              raw == arrayOf(parsed, "packages")
              rawMembers == arrayOf(parsed, "members")
          IN IF ~has(parsed, "root") THEN Threw(AssertionError)
             ELSE IF \E i \in 1..Len(raw) : ~validPackage(raw[i])
             THEN Threw(AssertionError)
             ELSE LET registrations == [i \in 1..Len(raw) |-> firstPass(raw[i], dir)]
                  IN IF \E i \in 1..Len(raw) :
                          ~allReturned(hydrate(raw[i].dependencies, registrations))
                     THEN Threw(AssertionError)
                     ELSE IF ~validManifest(parsed.root)
                             \/ ~allReturned(hydrate(parsed.root.dependencies, registrations))
                     THEN Threw(AssertionError)
                     ELSE IF \E i \in 1..Len(rawMembers) :
                               \/ ~validManifest(rawMembers[i])
                               \/ ~allReturned(hydrate(rawMembers[i].dependencies,
                                                       registrations))
                     THEN Threw(AssertionError)
                     ELSE LET packages ==
                                [i \in 1..Len(raw) |->
                                   [registrations[i] EXCEPT !.dependencies =
                                      values(hydrate(raw[i].dependencies, registrations))]]
                              workspace_ ==
                                [ root |-> toManifest(parsed.root, registrations),
                                  members |-> [i \in 1..Len(rawMembers) |->
                                     toManifest(rawMembers[i], registrations)] ]
                          IN Returned(
                               IF has(parsed, "metadata")
                               THEN [metadata |-> parsed.metadata,
                                     workspace |-> workspace_, packages |-> packages]
                               ELSE [workspace |-> workspace_, packages |-> packages])

\* null, as readLockfile returns it.
Null == [null |-> TRUE]

\* The body of readLockfile's try block on the file at <dir>/vba-block.lock:
\* pathExists, readFile (which may fail), fromToml.
readLockfileTry(file, dir) ==
  IF ~file.exists THEN Returned(Null)
  ELSE IF ~file.readable THEN Threw("EACCES")
  ELSE fromToml(file.text, dir)

readLockfileNoCatch(file, dir) == readLockfileTry(file, dir)

\* readLockfile(dir): the catch block returns null for whatever was thrown.
readLockfile(file, dir) ==
  LET outcome == readLockfileTry(file, dir)
  IN IF outcome.ok THEN outcome ELSE Returned(Null)

---------------------------------------------------------------------------
(* Inputs of the lockfile validity check                                   *)

DependencyNames == {"a", "b"}

DependencyPaths == {"/p/lib", "/p/vendor"}

GitRefs == {"v1", "v2"}

ManifestVersions == {"1.0.0", "1.1.0"}

\* Names are unique within a dependency table and within a workspace.
UniqueNames(items) ==
  \A i, j \in 1..Len(items) : items[i].name = items[j].name => i = j

\* Dependencies as the manifest declares them: a registry dependency carries a
\* SemVer range, a git dependency exactly one of rev, tag, branch.
ManifestDependencies(name) ==
  {[name |-> name, version |-> r, registry |-> "default"] : r \in Ranges}
  \cup {[name |-> name, path |-> p] : p \in DependencyPaths}
  \cup {[name |-> name, git |-> "https://git/repo", rev |-> g] : g \in GitRefs}
  \cup {[name |-> name, git |-> "https://git/repo", tag |-> g] : g \in GitRefs}
  \cup {[name |-> name, git |-> "https://git/repo", branch |-> g] : g \in GitRefs}

\* Dependencies as the lockfile holds them: pinned to one version.
LockedDependencies(name) ==
  {[name |-> name, version |-> v, registry |-> "default"] : v \in Versions}
  \cup {[name |-> name, path |-> p, version |-> v] : p \in DependencyPaths, v \in Versions}
  \cup {[name |-> name, git |-> "https://git/repo", rev |-> g] : g \in GitRefs}
  \cup {[name |-> name, git |-> "https://git/repo", tag |-> g] : g \in GitRefs}
  \cup {[name |-> name, git |-> "https://git/repo", branch |-> g] : g \in GitRefs}

\* The manifests on disk at the paths of path dependencies.
Disks == [DependencyPaths -> ManifestVersions \cup {NoManifest}]

\* The dependencies the workspace check is run on.
RootManifestDependencies ==
  { [name |-> "a", version |-> "^1.0.0", registry |-> "default"],
    [name |-> "b", path |-> "/p/lib"] }

RootLockedDependencies ==
  { [name |-> "a", version |-> "1.0.0", registry |-> "default"],
    [name |-> "a", version |-> "2.0.0", registry |-> "default"],
    [name |-> "b", path |-> "/p/lib", version |-> "1.0.0"],
    [name |-> "b", version |-> "1.0.0", registry |-> "default"] }

DependencyLists(S) == {l \in ListsUpTo(S, MaxDependencies) : UniqueNames(l)}

Snapshot(name, version, dependencies) ==
  [name |-> name, version |-> version, dependencies |-> dependencies]

MemberLists(S) == {l \in ListsUpTo(S, MaxMembers) : UniqueNames(l)}

Workspaces ==
  { [root |-> Snapshot("project", "1.0.0", d), members |-> m] :
      d \in DependencyLists(RootManifestDependencies),
      m \in MemberLists({Snapshot(n, "1.0.0", <<>>) : n \in {"m1", "m2"}}) }

LockedWorkspaces ==
  { [root |-> Snapshot(n, v, d), members |-> m] :
      n \in {"project", "other"}, v \in ManifestVersions,
      d \in DependencyLists(RootLockedDependencies),
      m \in MemberLists({Snapshot(mn, mv, <<>>) :
                           mn \in {"m1", "m2"}, mv \in ManifestVersions}) }

\* A lockfile as fromToml returns it, as far as the validity check reads it:
\* metadata is whatever the file holds, possibly nothing.
Lockfiles ==
  {[workspace |-> w] : w \in LockedWorkspaces}
  \cup {[metadata |-> [version |-> mv], workspace |-> w] :
          mv \in {LOCKFILE_VERSION, "0"}, w \in LockedWorkspaces}

---------------------------------------------------------------------------
(* Specification SpecValid: isLockfileValid on every lockfile, workspace   *)
(* and disk of the bounds.                                                 *)

PairIdle == value = Idle /\ comparison = Idle /\ satisfied = Idle

TomlIdle ==
  /\ tomlInput = Idle /\ tomlLockfile = Idle /\ tomlText = Idle
  /\ tomlRead = Idle /\ tomlText2 = Idle /\ tomlStep = Idle

ReadIdle == lockPath = Idle /\ readResult = Idle

DownloadIdle == dlCalls = Idle /\ dlFiles = Idle

ExportIdle ==
  /\ exOptions = Idle /\ exManifest = Idle /\ exPc = Idle /\ exTarget = Idle
  /\ exStaging = Idle /\ exDirs = Idle /\ exError = Idle /\ exCalls = Idle
  /\ exOutcome = Idle

ApplyIdle ==
  /\ apChangeset = Idle /\ apFiles = Idle /\ apSrc = Idle /\ apPatches = Idle
  /\ apPhase = Idle /\ apProgress = Idle /\ apTouched = Idle
  /\ apFiles0 = Idle /\ apSrc0 = Idle

LockIdle == lockfile = Idle /\ workspace = Idle /\ manifests = Idle /\ valid = Idle

InitValid ==
  /\ lockfile \in Lockfiles
  /\ workspace \in Workspaces
  /\ manifests \in {d \in Disks : d["/p/vendor"] = NoManifest}
  /\ valid = Pending
  /\ PairIdle /\ TomlIdle /\ ReadIdle /\ DownloadIdle /\ ExportIdle /\ ApplyIdle

IsLockfileValid ==
  /\ valid = Pending
  /\ valid' = isLockfileValid(lockfile, workspace, manifests)
  /\ UNCHANGED <<lockfile, workspace, manifests, pairVars, tomlVars, readVars, dlVars, exVars, apVars>>

NextValid == IsLockfileValid

SpecValid == InitValid /\ [][NextValid]_vars

---------------------------------------------------------------------------
(* Specification SpecSatisfies: satisfiesDependency on every pair of a     *)
(* manifest dependency and a locked dependency of the same name.           *)

InitSatisfies ==
  /\ \E n \in DependencyNames :
       /\ value \in ManifestDependencies(n)
       /\ comparison \in LockedDependencies(n)
  /\ manifests \in Disks
  /\ satisfied = Pending
  /\ lockfile = Idle /\ workspace = Idle /\ valid = Idle
  /\ TomlIdle /\ ReadIdle /\ DownloadIdle /\ ExportIdle /\ ApplyIdle

SatisfiesDependency ==
  /\ satisfied = Pending
  /\ satisfied' = satisfiesDependency(value, comparison, manifests)
  /\ UNCHANGED <<value, comparison, lockVars, tomlVars, readVars, dlVars, exVars, apVars>>

NextSatisfies == SatisfiesDependency

SpecSatisfies == InitSatisfies /\ [][NextSatisfies]_vars

---------------------------------------------------------------------------
(* Inputs of the lockfile codec: lockfiles as the resolver produces them   *)

\* The project directory the lockfile is written to and read from.
ProjectDir == <<"/", "p">>

RegistrySource == <<"registry", "+", "default">>

GitSource == <<"git", "+", "https://git/repo", "#", "abc123">>

PathSource(path) == <<"path", "+">> \o path

PathChoices ==
  { <<"/", "p", "/", "lib">>, <<"/", "p", "/", "lib", "/">>,
    <<"/", "q", "/", "ext">>, <<"/", "p">> }

SourceChoices == {RegistrySource, GitSource} \cup {PathSource(q) : q \in PathChoices}

\* A registration as the resolver mints it; the checksum is optional.
Registration(name, version, source, dependencies) ==
  [ id |-> getRegistrationId(name, version), name |-> name, version |-> version,
    source |-> source, dependencies |-> dependencies ]

WithChecksum(registration) ==
  [f \in DOMAIN registration \cup {"checksum"} |->
     IF f = "checksum" THEN "9f86d08" ELSE registration[f]]

\* The manifest dependencies a registration satisfies.
ManifestDependenciesOn(registration) ==
  LET parts == getSourceParts(registration.source)
  IN IF parts.type = <<"registry">>
     THEN {[name |-> registration.name, version |-> r, registry |-> parts.value] :
             r \in {x \in Ranges : satisfiesSemver(registration.version, x)}}
     ELSE IF parts.type = <<"git">>
     THEN {[name |-> registration.name, git |-> parts.value, rev |-> parts.details]}
     ELSE {[name |-> registration.name, path |-> parts.value]}

DependenciesOn(packages) ==
  UNION {ManifestDependenciesOn(packages[i]) : i \in 1..Len(packages)}

\* Graphs of at most two packages with every kind of source: a may depend on b.
SourceGraphs ==
  LET bs == {Registration("b", "1.0.0", src, <<>>) : src \in SourceChoices}
      bsAll == bs \cup {WithChecksum(r) : r \in {x \in bs : x.source # GitSource}}
      asOn(b) == {Registration("a", "1.1.0", RegistrySource, d) :
                    d \in {<<>>} \cup {<<x>> : x \in ManifestDependenciesOn(b)}}
  IN {<<b>> : b \in bsAll}
     \cup {<<Registration("a", "1.1.0", RegistrySource, <<>>)>>}
     \cup UNION {{<<a, b>> : a \in asOn(b)} \cup {<<b, a>> : a \in asOn(b)} : b \in bs}

\* Graphs of registry packages in every order of lockfile.packages.
OrderGraphs ==
  LET names == {NameOrder[i] : i \in 1..MaxPackages}
  IN {g \in ListsUpTo({Registration(n, "1.0.0", RegistrySource, <<>>) : n \in names},
                      MaxPackages) : UniqueNames(g)}

\* Lockfiles over a graph of every kind of source: the root and the members
\* depend on packages of the graph.
SourceLockfiles(g) ==
  { [workspace |-> [root |-> Snapshot("project", "1.0.0", d), members |-> m],
     packages |-> g] :
      d \in {l \in ListsUpTo(DependenciesOn(g), MaxDependencies) : UniqueNames(l)},
      m \in {l \in ListsUpTo({Snapshot("m1", "0.1.0", md) :
                                md \in {<<>>} \cup {<<x>> : x \in DependenciesOn(SubSeq(g, 1, IF g = <<>> THEN 0 ELSE 1))}}
                              \cup {Snapshot("m2", "0.2.0", <<>>)},
                             MaxMembers) : UniqueNames(l)} }

OrderLockfiles(g) ==
  { [workspace |-> [root |-> Snapshot("project", "1.0.0", d), members |-> <<>>],
     packages |-> g] : d \in ListsUpTo(DependenciesOn(g), 1) }

ResolvedLockfiles ==
  UNION {SourceLockfiles(g) : g \in SourceGraphs}
  \cup UNION {OrderLockfiles(g) : g \in OrderGraphs}

---------------------------------------------------------------------------
(* Specification SpecToml: a lockfile is written, read back and written    *)
(* again.                                                                  *)

InitToml ==
  /\ tomlInput \in ResolvedLockfiles
  /\ tomlLockfile = tomlInput
  /\ tomlText = Threw(Pending)
  /\ tomlRead = Threw(Pending)
  /\ tomlText2 = Threw(Pending)
  /\ tomlStep = "start"
  /\ LockIdle /\ PairIdle /\ ReadIdle /\ DownloadIdle /\ ExportIdle /\ ApplyIdle

\* toToml(lockfile, dir); lockfile.packages.sort(...) sorts the array in place.
ToToml ==
  /\ tomlStep = "start"
  /\ tomlText' = toToml(tomlLockfile, ProjectDir)
  /\ tomlLockfile' = [tomlLockfile EXCEPT !.packages = sortByName(@)]
  /\ tomlStep' = "written"
  /\ UNCHANGED <<tomlInput, tomlRead, tomlText2, lockVars, pairVars, readVars, dlVars, exVars, apVars>>

\* fromToml(toml, dir) on the text written.
FromToml ==
  /\ tomlStep = "written"
  /\ tomlText.ok
  /\ tomlRead' = fromToml(tomlText.value, ProjectDir)
  /\ tomlStep' = "read"
  /\ UNCHANGED <<tomlInput, tomlLockfile, tomlText, tomlText2, lockVars, pairVars, readVars, dlVars, exVars, apVars>>

\* toToml(lockfile, dir) on the lockfile read back.
ToTomlAgain ==
  /\ tomlStep = "read"
  /\ tomlRead.ok
  /\ tomlText2' = toToml(tomlRead.value, ProjectDir)
  /\ tomlStep' = "rewritten"
  /\ UNCHANGED <<tomlInput, tomlLockfile, tomlText, tomlRead, lockVars, pairVars, readVars, dlVars, exVars, apVars>>

NextToml == ToToml \/ FromToml \/ ToTomlAgain

SpecToml == InitToml /\ [][NextToml]_vars

---------------------------------------------------------------------------
(* Specification SpecRead: readLockfile on every state of the lockfile     *)
(* path: missing, unreadable, not TOML, TOML with a defect, well-formed.   *)

without(record, field) == [f \in DOMAIN record \ {field} |-> record[f]]

\* A dependency id naming a package that no lockfile of the model holds.
UnknownId == <<"zz", " ", "1.0.0", " ", "registry", "+", "default">>

\* The trees obtained from a written tree by one defect.
Defects(tree) ==
  { without(tree, "root"), without(tree, "metadata"), without(tree, "members"),
    [tree EXCEPT !.root = without(@, "name")],
    [tree EXCEPT !.root = without(@, "version")],
    [tree EXCEPT !.root = without(@, "dependencies")],
    [tree EXCEPT !.root.dependencies = Append(@, UnknownId)],
    [tree EXCEPT !.packages = SubSeq(@, 1, Len(@) - 1)] }
  \cup UNION { { [tree EXCEPT !.packages[i] = without(@, f)] :
                   f \in {"name", "version", "source", "dependencies"} }
               \cup {[tree EXCEPT !.packages[i].dependencies = Append(@, UnknownId)]} :
               i \in 1..Len(tree.packages) }
  \cup { [tree EXCEPT !.members[i] = without(@, f)] :
           i \in 1..Len(tree.members), f \in {"name", "version", "dependencies"} }

ReadGraphs ==
  { <<>> }
  \cup UNION { { <<Registration("a", "1.1.0", RegistrySource, <<x>>), b>> :
                   x \in ManifestDependenciesOn(b) } :
               b \in { Registration("b", "1.0.0", RegistrySource, <<>>),
                       Registration("b", "1.0.0", PathSource(<<"/", "p", "/", "lib">>),
                                    <<>>) } }

WrittenTrees ==
  {toTomlTree(l, ProjectDir) : l \in UNION {SourceLockfiles(g) : g \in ReadGraphs}}

LockTexts ==
  {Garbage}
  \cup {[comment |-> VBA_BLOCKS_VERSION, toml |-> t] :
          t \in WrittenTrees \cup UNION {Defects(w) : w \in WrittenTrees}}

LockPaths ==
  { [exists |-> FALSE], [exists |-> TRUE, readable |-> FALSE] }
  \cup {[exists |-> TRUE, readable |-> TRUE, text |-> t] : t \in LockTexts}

NotCalled == Threw(Pending)

InitRead ==
  /\ lockPath \in LockPaths
  /\ readResult = NotCalled
  /\ LockIdle /\ PairIdle /\ TomlIdle /\ DownloadIdle /\ ExportIdle /\ ApplyIdle

ReadLockfile ==
  /\ readResult = NotCalled
  /\ readResult' = readLockfile(lockPath, ProjectDir)
  /\ UNCHANGED <<lockPath, lockVars, pairVars, tomlVars, dlVars, exVars, apVars>>

NextRead == ReadLockfile

SpecRead == InitRead /\ [][NextRead]_vars

\* A tree that passes every validation of fromToml.
wellFormed(tree) ==
  /\ has(tree, "root")
  /\ \A f \in {"name", "version", "dependencies"} : has(tree.root, f)
  /\ \A i \in 1..Len(arrayOf(tree, "packages")) :
       \A f \in {"name", "version", "source", "dependencies"} :
         has(tree.packages[i], f)
  /\ \A i \in 1..Len(arrayOf(tree, "members")) :
       \A f \in {"name", "version", "dependencies"} : has(tree.members[i], f)
  /\ LET names == {<<arrayOf(tree, "packages")[i].name>> :
                     i \in 1..Len(arrayOf(tree, "packages"))}
         ids == Range(tree.root.dependencies)
                \cup UNION {Range(arrayOf(tree, "packages")[i].dependencies) :
                              i \in 1..Len(arrayOf(tree, "packages"))}
                \cup UNION {Range(arrayOf(tree, "members")[i].dependencies) :
                              i \in 1..Len(arrayOf(tree, "members"))}
     IN \A id \in ids : Before(id, " ") \in names

readable(file) ==
  /\ file.exists /\ file.readable
  /\ has(file.text, "toml") /\ wellFormed(file.text.toml)

\* C3: readLockfile never fails: it returns null when the lockfile does not
\* exist and for every read, parse or validation failure (missing [root], a
\* package lacking name, version, source or dependencies, a dependency id
\* naming a package that is not in the lockfile), and returns a Lockfile only
\* when parsing and hydration fully succeed; no error reaches the caller.
C3_ReadLockfileNeverFails ==
  readResult # NotCalled =>
    /\ readResult.ok
    /\ ~readable(lockPath) => readResult.value = Null
    /\ readable(lockPath) =>
         /\ readResult.value # Null
         /\ has(readResult.value, "workspace") /\ has(readResult.value, "packages")
         /\ Len(readResult.value.packages) = Len(arrayOf(lockPath.text.toml, "packages"))

\* C3 witness: a lockfile that exists and parses, with a dependency id naming a
\* package that is not in it, was read, and null was returned.
C3_Witness ==
  /\ readResult = Returned(Null)
  /\ lockPath.exists /\ lockPath.readable /\ has(lockPath.text, "toml")
  /\ has(lockPath.text.toml, "root") /\ has(lockPath.text.toml.root, "dependencies")
  /\ UnknownId \in Range(lockPath.text.toml.root.dependencies)

---------------------------------------------------------------------------
(* Claims about the lockfile validity check                                *)

RefKinds == {"rev", "tag", "branch"}

\* The pair acceptance the lock check is specified to compute.
Accepted(current, locked, disk) ==
  \/ /\ isRegistryDependency(locked) /\ isRegistryDependency(current)
     /\ satisfiesSemver(locked.version, current.version)
  \/ /\ isPathDependency(locked) /\ isPathDependency(current)
     /\ ~isRegistryDependency(locked)
     /\ current.path = locked.path
     /\ disk[current.path] = locked.version
  \/ /\ isGitDependency(locked) /\ isGitDependency(current)
     /\ ~isRegistryDependency(locked) /\ ~isPathDependency(locked)
     /\ \E k \in RefKinds :
          /\ has(current, k) /\ has(locked, k)
          /\ current[k] = locked[k]

KindOf(dependency) ==
  IF isRegistryDependency(dependency) THEN "registry"
  ELSE IF isPathDependency(dependency) THEN "path"
  ELSE "git"

\* C2: a pair (manifest dependency, locked dependency) of the same name is
\* accepted exactly when: registry/registry and the locked version satisfies
\* the manifest's range; path/path with the same path and the version of the
\* manifest on disk at that path equal to the locked version; git/git with
\* the same ref discriminator and an equal value. A pair of different kinds,
\* or git dependencies with different discriminators, is rejected (false).
C2_SatisfiesDependency ==
  satisfied # Pending =>
    /\ (satisfied = BoolTrue) <=> Accepted(value, comparison, manifests)
    /\ KindOf(value) # KindOf(comparison) => satisfied = BoolFalse
    /\ ( /\ isGitDependency(value) /\ isGitDependency(comparison)
         /\ \A k \in RefKinds : ~(has(value, k) /\ has(comparison, k)) )
       => satisfied = BoolFalse

\* C2 witness: a path pair with the same path was checked against the disk, and
\* rejected because the nested manifest's version is not the locked one.
C2_Witness ==
  /\ satisfied = BoolFalse
  /\ isPathDependency(value) /\ isPathDependency(comparison)
  /\ value.path = comparison.path
  /\ manifests[value.path] \in ManifestVersions
  /\ manifests[value.path] # comparison.version

\* What C1 states of one pair of snapshots.
ManifestMatches(current, locked, disk) ==
  /\ current.name = locked.name
  /\ current.version = locked.version
  /\ {d.name : d \in Range(current.dependencies)}
       = {d.name : d \in Range(locked.dependencies)}
  /\ Len(current.dependencies) = Len(locked.dependencies)
  /\ \A i \in 1..Len(locked.dependencies), j \in 1..Len(current.dependencies) :
       current.dependencies[j].name = locked.dependencies[i].name
         => Accepted(current.dependencies[j], locked.dependencies[i], disk)

ValidCondition(lock, ws, disk) ==
  /\ has(lock, "metadata") /\ lock.metadata.version = LOCKFILE_VERSION
  /\ ManifestMatches(ws.root, lock.workspace.root, disk)
  /\ Len(lock.workspace.members) = Len(ws.members)
  /\ \A i \in 1..Len(lock.workspace.members) :
       \E j \in 1..Len(ws.members) :
         /\ ws.members[j].name = lock.workspace.members[i].name
         /\ ManifestMatches(ws.members[j], lock.workspace.members[i], disk)

\* C1: isLockfileValid returns true if and only if (a) the metadata version is
\* the current lock version, (b) the root snapshot matches the locked root on
\* name, version and dependency set, (c) the member counts agree and every
\* locked member matches the current member of the same name; in every other
\* case it returns false.
C1_IsLockfileValid ==
  valid # Pending =>
    /\ (valid = BoolTrue) <=> ValidCondition(lockfile, workspace, manifests)
    /\ ~ValidCondition(lockfile, workspace, manifests) => valid = BoolFalse

\* The part of C1 the code does satisfy: true exactly under (a), (b), (c).
C1_TrueExactlyWhenMatching ==
  valid # Pending =>
    ((valid = BoolTrue) <=> ValidCondition(lockfile, workspace, manifests))

---------------------------------------------------------------------------
(* Claims about the lockfile codec                                         *)

\* C4: round-trip stability of the lockfile text: for every text s that
\* toToml(L, dir) returns, fromToml(s, dir) succeeds and
\* toToml(fromToml(s, dir), dir) is equal to s (same packages in the same
\* order, same dependency id strings, same relative path sources with a
\* trailing slash).
C4_TextRoundTrip ==
  /\ tomlStep = "read" => tomlRead.ok
  /\ tomlStep = "rewritten" => tomlText2 = tomlText

\* C4 witness: a text with a package at a path outside the project directory
\* ("../q/ext/") that another entry depends on was read and written again.
C4_Witness ==
  /\ tomlStep = "rewritten"
  /\ tomlText2.ok
  /\ \E id \in treeIds(tomlText2.value.toml) :
       SubSeq(id, 5, Len(id)) = <<"path", "+", "..", "/", "q", "/", "ext", "/">>
  /\ \E i \in 1..Len(tomlInput.packages) :
       tomlInput.packages[i].source = PathSource(<<"/", "q", "/", "ext">>)

ascendingByName(packages) ==
  \A i, j \in 1..Len(packages) : i < j => nameLess(packages[i].name, packages[j].name)

\* C6: in every output of toToml the package entries are in ascending order of
\* name whatever the order of lockfile.packages, the emitted packages are the
\* input packages, and the member entries are in the order of
\* lockfile.workspace.members.
C6_PackagesSorted ==
  (tomlStep # "start" /\ tomlText.ok) =>
    LET tree == tomlText.value.toml
    IN /\ ascendingByName(tree.packages)
       /\ Len(tree.packages) = Len(tomlInput.packages)
       /\ {<<q.name, q.version>> : q \in Range(tree.packages)}
            = {<<q.name, q.version>> : q \in Range(tomlInput.packages)}
       /\ [i \in 1..Len(tree.members) |-> tree.members[i].name]
            = [i \in 1..Len(tomlInput.workspace.members) |->
                 tomlInput.workspace.members[i].name]

\* C6 witness: a lockfile whose three packages were passed in descending order
\* and whose two members are in the order m2, m1 has been written.
C6_Witness ==
  /\ tomlStep = "written" /\ tomlText.ok
  /\ \/ /\ Len(tomlInput.packages) = 3
        /\ \A i, j \in 1..3 :
             i < j => nameLess(tomlInput.packages[j].name, tomlInput.packages[i].name)
     \/ /\ Len(tomlInput.workspace.members) = 2
        /\ tomlInput.workspace.members[1].name = "m2"
        /\ ~ascendingByName(tomlInput.packages)

noPathSource(packages) ==
  \A i \in 1..Len(packages) : getSourceParts(packages[i].source).type # <<"path">>

sameDirectory(read, original) ==
  /\ isAbsolute(read) /\ endsWithSlash(read)
  /\ Segments(read) = Segments(original)

sameSource(read, original) ==
  LET r == getSourceParts(read)
      o == getSourceParts(original)
  IN IF o.type # <<"path">> THEN read = original
     ELSE r.type = <<"path">> /\ r.details = o.details /\ sameDirectory(r.value, o.value)

\* Each dependency is replaced, in place, by the pinned dependency of the
\* package of its name.
pinned(read, original, packages) ==
  /\ Len(read) = Len(original)
  /\ \A i \in 1..Len(original) :
       /\ read[i].name = original[i].name
       /\ \E k \in 1..Len(packages) :
            /\ packages[k].name = original[i].name
            /\ read[i] = toDependency(packages[k])

sameSnapshot(read, original, packages) ==
  /\ read.name = original.name
  /\ read.version = original.version
  /\ pinned(read.dependencies, original.dependencies, packages)

ErrorStatus == 400
RedirectStatus == 300

NoStatus == -1
NoUrl == "undefined"
Urls == {"https://registry/a.tgz", "https://mirror/a.tgz"}
Dests == {"/cache/a.tgz", "/cache/b.tgz"}
\* 0 stands for a response without a status code
Statuses == {0, 200, 299, 300, 302, 399, 400, 404, 500}

statusBranchOver(code) ==
  IF code # 0 /\ code > ErrorStatus THEN "reject"
  ELSE IF code # 0 /\ code >= RedirectStatus THEN "redirect"
  ELSE "write"

statusBranch(code) ==
  IF code # 0 /\ code >= ErrorStatus THEN "reject"
  ELSE IF code # 0 /\ code >= RedirectStatus THEN "redirect"
  ELSE "write"

call(url, dest) ==
  [url |-> url, dest |-> dest, state |-> "called", status |-> NoStatus,
   location |-> NoUrl, opened |-> FALSE]

NewFile == [opened |-> FALSE, written |-> 0, finished |-> FALSE]

settled(c) == c.state \in {"resolved", "rejected"}

last == Len(dlCalls)

InitDownload ==
  /\ \E url \in Urls, dest \in Dests : dlCalls = <<call(url, dest)>>
  /\ dlFiles = [d \in Dests |-> NewFile]
  /\ LockIdle /\ PairIdle /\ TomlIdle /\ ReadIdle /\ ExportIdle /\ ApplyIdle

restOfDownload == <<lockVars, pairVars, tomlVars, readVars, exVars, apVars>>

\* await ensureDir(dirname(dest)) completes
EnsureDir ==
  /\ dlCalls[last].state = "called"
  /\ dlCalls' = [dlCalls EXCEPT ![last].state = "ensured"]
  /\ UNCHANGED <<dlFiles, restOfDownload>>

\* await ensureDir(dirname(dest)) throws: the async function rejects
EnsureDirFails ==
  /\ dlCalls[last].state = "called"
  /\ dlCalls' = [dlCalls EXCEPT ![last].state = "rejected"]
  /\ UNCHANGED <<dlFiles, restOfDownload>>

\* the executor calls https.get(url, callback)
Get ==
  /\ dlCalls[last].state = "ensured"
  /\ dlCalls' = [dlCalls EXCEPT ![last].state = "requested"]
  /\ UNCHANGED <<dlFiles, restOfDownload>>

\* https.get throws inside the executor (an undefined url): the promise
\* constructor rejects
GetThrows ==
  /\ dlCalls[last].state = "ensured"
  /\ dlCalls[last].url = NoUrl
  /\ dlCalls' = [dlCalls EXCEPT ![last].state = "rejected"]
  /\ UNCHANGED <<dlFiles, restOfDownload>>

\* the request emits 'error' before a response has arrived
RequestError ==
  /\ dlCalls[last].state = "requested"
  /\ dlCalls' = [dlCalls EXCEPT ![last].state = "rejected"]
  /\ UNCHANGED <<dlFiles, restOfDownload>>

\* the response callback
Response ==
  /\ dlCalls[last].state = "requested"
  /\ \E code \in Statuses, location \in Urls \cup {NoUrl} :
       LET this == dlCalls[last]
           branch == statusBranch(code)
       IN  CASE branch = "reject" ->
                  /\ dlCalls' = [dlCalls EXCEPT ![last].state = "rejected",
                                                ![last].status = code]
                  /\ UNCHANGED dlFiles
             [] branch = "redirect" ->
                  /\ last <= MaxRedirects
                  /\ dlCalls' =
                       Append([dlCalls EXCEPT ![last].state = "redirected",
                                              ![last].status = code,
                                              ![last].location = location],
                              call(location, this.dest))
                  /\ UNCHANGED dlFiles
             [] OTHER ->
                  /\ location = NoUrl
                  /\ dlCalls' = [dlCalls EXCEPT ![last].state = "writing",
                                                ![last].status = code,
                                                ![last].opened = TRUE]
                  /\ dlFiles' = [dlFiles EXCEPT ![this.dest] =
                                   [NewFile EXCEPT !.opened = TRUE]]
  /\ UNCHANGED restOfDownload

\* response.pipe(file) writes one more chunk of the body
WriteChunk ==
  /\ dlCalls[last].state = "writing"
  /\ dlFiles[dlCalls[last].dest].written < BodyChunks
  /\ dlFiles' = [dlFiles EXCEPT ![dlCalls[last].dest].written = @ + 1]
  /\ UNCHANGED <<dlCalls, restOfDownload>>

\* the whole body has been flushed: file emits 'finish'
Finish ==
  /\ dlCalls[last].state = "writing"
  /\ dlFiles[dlCalls[last].dest].written = BodyChunks
  /\ dlFiles' = [dlFiles EXCEPT ![dlCalls[last].dest].finished = TRUE]
  /\ dlCalls' = [dlCalls EXCEPT ![last].state = "resolved"]
  /\ UNCHANGED restOfDownload

\* opening or writing the file fails: file emits 'error'
WriteError ==
  /\ dlCalls[last].state = "writing"
  /\ dlCalls' = [dlCalls EXCEPT ![last].state = "rejected"]
  /\ UNCHANGED <<dlFiles, restOfDownload>>

\* the response breaks off before its end: pipe never ends the file and no
\* listener settles the promise
ResponseAborted ==
  /\ dlCalls[last].state = "writing"
  /\ dlFiles[dlCalls[last].dest].written < BodyChunks
  /\ dlCalls' = [dlCalls EXCEPT ![last].state = "stalled"]
  /\ UNCHANGED <<dlFiles, restOfDownload>>

\* download(redirect, dest).then(resolve, reject)
Settle ==
  /\ \E i \in 1..(last - 1) :
       /\ dlCalls[i].state = "redirected"
       /\ settled(dlCalls[i + 1])
       /\ dlCalls' = [dlCalls EXCEPT ![i].state = dlCalls[i + 1].state]
  /\ UNCHANGED <<dlFiles, restOfDownload>>

NextDownload ==
  \/ EnsureDir
  \/ EnsureDirFails
  \/ Get
  \/ GetThrows
  \/ RequestError
  \/ Response
  \/ WriteChunk
  \/ Finish
  \/ WriteError
  \/ ResponseAborted
  \/ Settle

SpecDownload == InitDownload /\ [][NextDownload]_vars

answered(c) == c.state \notin {"called", "ensured", "requested"} /\ c.status # NoStatus

\* C7: a call answered with a status >= 400 is rejected and has not opened or
\* written dest; a call answered with a status in 300..399 has made a next
\* call for the Location header with the same dest, and is settled only as
\* that call is settled; a call answered with any other status has opened
\* dest and is resolved only once the whole body is written and flushed.
C7_Download ==
  \A i \in 1..Len(dlCalls) :
    LET c == dlCalls[i]
    IN  answered(c) =>
          IF c.status >= 400
            THEN /\ c.state = "rejected"
                 /\ ~c.opened
                 /\ dlFiles[c.dest] = NewFile
          ELSE IF c.status >= 300
            THEN /\ i < Len(dlCalls)
                 /\ dlCalls[i + 1].url = c.location
                 /\ dlCalls[i + 1].dest = c.dest
                 /\ ~c.opened
                 /\ c.state \in {"redirected", dlCalls[i + 1].state}
                 /\ settled(c) => settled(dlCalls[i + 1])
          ELSE /\ c.opened
               /\ dlFiles[c.dest].opened
               /\ c.state \in {"writing", "stalled", "resolved", "rejected"}
               /\ c.state = "resolved" =>
                    /\ dlFiles[c.dest].finished
                    /\ dlFiles[c.dest].written = BodyChunks

C7_Witness ==
  /\ Len(dlCalls) = 3
  /\ dlCalls[1].status = 302 /\ dlCalls[1].state = "resolved"
  /\ dlCalls[2].status = 399 /\ dlCalls[2].state = "resolved"
  /\ dlCalls[3].status = 200 /\ dlCalls[3].state = "resolved"
  /\ dlFiles[dlCalls[1].dest].finished

\* ---------------------------------------------------------------------------
\* exportProject(options): src/actions/export-project.ts
\* ---------------------------------------------------------------------------

TargetTypes == {"xlsm", "xlam"}
ProjectNames == {<<"proj">>, <<"my", "/", "proj">>}
StagingRoot == <<"/", "cache", "/", "staging">>
CompletedDir == <<"/", "tmp", "/", "exported">>
\* an unassigned path variable; like the empty string it is falsy
NoPath == <<>>
NoError == "none"

\* sanitize(name): characters that a file name cannot hold are replaced
sanitize(name) == [i \in 1..Len(name) |-> IF name[i] \in {"/", ":"} THEN "-" ELSE name[i]]

ManifestTarget(type, name) ==
  [type |-> type, name |-> name, path |-> <<"targets", "/", type>>,
   filename |-> sanitize(name) \o <<".", type>>]

ExportManifests ==
  {[name |-> n] : n \in ProjectNames}
    \cup {[name |-> n, target |-> ManifestTarget(t, n)] : n \in ProjectNames, t \in TargetTypes}

ExportOptions ==
  {[addin |-> "addin"]}
    \cup {[addin |-> "addin", target |-> t] : t \in TargetTypes}
    \cup {[addin |-> "addin", completed |-> CompletedDir]}
    \cup {[addin |-> "addin", target |-> t, completed |-> CompletedDir] : t \in TargetTypes}

chooseTargetIgnoresType(options, manifest) ==
  IF ~has(options, "target") /\ ~has(manifest, "target")
    THEN Threw("export-no-target")
  ELSE IF has(manifest, "target")
    THEN Returned(manifest.target)
  ELSE Returned([type |-> options.target, name |-> manifest.name,
                 path |-> <<"targets", "/", options.target>>,
                 filename |-> sanitize(manifest.name) \o <<".", options.target>>,
                 blank |-> TRUE])

\* lines 23-56: the target to export from, or the error thrown
chooseTarget(options, manifest) ==
  IF ~has(options, "target") /\ ~has(manifest, "target")
    THEN Threw("export-no-target")
  ELSE IF has(manifest, "target")
    THEN IF ~has(options, "target") \/ options.target = manifest.target.type
           THEN Returned(manifest.target)
           ELSE Threw("export-no-matching")
  ELSE Returned([type |-> options.target, name |-> manifest.name,
                 path |-> <<"targets", "/", options.target>>,
                 filename |-> sanitize(manifest.name) \o <<".", options.target>>,
                 blank |-> TRUE])

\* lines 62-72: the staging directory the action works in
chooseStaging(options) ==
  IF ~has(options, "completed") \/ options.completed = NoPath
    THEN join(StagingRoot, <<"export">>)
    ELSE options.completed

\* line 80: if (staging)
finallySkipsRemove(staging) == FALSE

finallyRemoves(staging) == staging # NoPath

\* remove(path) of utils/fs: the directory and all it holds are gone
remove(dirs, path) == dirs \ {path}

InitExport ==
  /\ exOptions \in ExportOptions
  /\ exManifest \in ExportManifests
  /\ exPc = "loadProject"
  /\ exTarget = Null
  /\ exStaging = NoPath
  /\ exDirs \in SUBSET {chooseStaging([addin |-> "addin"]), CompletedDir}
  /\ exError = NoError
  /\ exCalls = {}
  /\ exOutcome = NotCalled
  /\ LockIdle /\ PairIdle /\ TomlIdle /\ ReadIdle /\ DownloadIdle /\ ApplyIdle

restOfExport == <<lockVars, pairVars, tomlVars, readVars, dlVars, apVars>>

LoadProject ==
  /\ exPc = "loadProject"
  /\ exPc' = "chooseTarget"
  /\ exCalls' = exCalls \cup {"loadProject"}
  /\ UNCHANGED <<exOptions, exManifest, exTarget, exStaging, exDirs, exError,
                 exOutcome, restOfExport>>

\* loadProject throws outside the try block: the action exits with its error
LoadProjectFails ==
  /\ exPc = "loadProject"
  /\ exPc' = "done"
  /\ exCalls' = exCalls \cup {"loadProject"}
  /\ exOutcome' = Threw("manifest-not-found")
  /\ UNCHANGED <<exOptions, exManifest, exTarget, exStaging, exDirs, exError,
                 restOfExport>>

ChooseTarget ==
  /\ exPc = "chooseTarget"
  /\ LET chosen == chooseTarget(exOptions, exManifest)
     IN  IF chosen.ok
           THEN /\ exTarget' = chosen.value
                /\ exPc' = "fetchDependencies"
                /\ UNCHANGED exOutcome
           ELSE /\ exOutcome' = chosen
                /\ exPc' = "done"
                /\ UNCHANGED exTarget
  /\ UNCHANGED <<exOptions, exManifest, exStaging, exDirs, exError, exCalls,
                 restOfExport>>

FetchDependencies ==
  /\ exPc = "fetchDependencies"
  /\ exPc' = "try"
  /\ exCalls' = exCalls \cup {"fetchDependencies"}
  /\ UNCHANGED <<exOptions, exManifest, exTarget, exStaging, exDirs, exError,
                 exOutcome, restOfExport>>

\* fetchDependencies throws outside the try block: the action exits with its error
FetchDependenciesFails ==
  /\ exPc = "fetchDependencies"
  /\ exPc' = "done"
  /\ exCalls' = exCalls \cup {"fetchDependencies"}
  /\ exOutcome' = Threw("dependency-not-found")
  /\ UNCHANGED <<exOptions, exManifest, exTarget, exStaging, exDirs, exError,
                 restOfExport>>

ChooseStaging ==
  /\ exPc = "try"
  /\ exStaging' = chooseStaging(exOptions)
  /\ exPc' = IF has(exOptions, "completed") /\ exOptions.completed # NoPath
               THEN "exportTarget" ELSE "ensureDir"
  /\ UNCHANGED <<exOptions, exManifest, exTarget, exDirs, exError, exCalls,
                 exOutcome, restOfExport>>

EnsureStaging ==
  /\ exPc = "ensureDir"
  /\ exPc' = "emptyDir"
  /\ exDirs' = exDirs \cup {exStaging}
  /\ exCalls' = exCalls \cup {"ensureDir"}
  /\ UNCHANGED <<exOptions, exManifest, exTarget, exStaging, exError, exOutcome,
                 restOfExport>>

\* ensureDir throws inside the try block: catch rethrows, finally runs
EnsureStagingFails ==
  /\ exPc = "ensureDir"
  /\ exPc' = "finally"
  /\ exCalls' = exCalls \cup {"ensureDir"}
  /\ exError' = "ensureDir-failed"
  /\ UNCHANGED <<exOptions, exManifest, exTarget, exStaging, exDirs, exOutcome,
                 restOfExport>>

EmptyStaging ==
  /\ exPc = "emptyDir"
  /\ exPc' = "exportTo"
  /\ exCalls' = exCalls \cup {"emptyDir"}
  /\ UNCHANGED <<exOptions, exManifest, exTarget, exStaging, exDirs, exError,
                 exOutcome, restOfExport>>

\* emptyDir throws inside the try block: catch rethrows, finally runs
EmptyStagingFails ==
  /\ exPc = "emptyDir"
  /\ exPc' = "finally"
  /\ exCalls' = exCalls \cup {"emptyDir"}
  /\ exError' = "emptyDir-failed"
  /\ UNCHANGED <<exOptions, exManifest, exTarget, exStaging, exDirs, exOutcome,
                 restOfExport>>

ExportTo ==
  /\ exPc = "exportTo"
  /\ exPc' = "exportTarget"
  /\ exCalls' = exCalls \cup {"exportTo"}
  /\ UNCHANGED <<exOptions, exManifest, exTarget, exStaging, exDirs, exError,
                 exOutcome, restOfExport>>

\* exportTo throws inside the try block: catch rethrows, finally runs
ExportToFails ==
  /\ exPc = "exportTo"
  /\ exPc' = "finally"
  /\ exCalls' = exCalls \cup {"exportTo"}
  /\ exError' = "target-export-failed"
  /\ UNCHANGED <<exOptions, exManifest, exTarget, exStaging, exDirs, exOutcome,
                 restOfExport>>

ExportTarget ==
  /\ exPc = "exportTarget"
  /\ exPc' = "finally"
  /\ exCalls' = exCalls \cup {"exportTarget"}
  /\ UNCHANGED <<exOptions, exManifest, exTarget, exStaging, exDirs, exError,
                 exOutcome, restOfExport>>

\* exportTarget throws inside the try block: catch rethrows, finally runs
ExportTargetFails ==
  /\ exPc = "exportTarget"
  /\ exPc' = "finally"
  /\ exCalls' = exCalls \cup {"exportTarget"}
  /\ exError' = "export-target-failed"
  /\ UNCHANGED <<exOptions, exManifest, exTarget, exStaging, exDirs, exOutcome,
                 restOfExport>>

\* finally { if (staging) await remove(staging) }, then the action returns or
\* rethrows the error in flight
Finally ==
  /\ exPc = "finally"
  /\ exPc' = "done"
  /\ IF finallyRemoves(exStaging)
       THEN /\ exDirs' = remove(exDirs, exStaging)
            /\ exCalls' = exCalls \cup {"remove"}
       ELSE UNCHANGED <<exDirs, exCalls>>
  /\ exOutcome' = IF exError = NoError THEN Returned(Null) ELSE Threw(exError)
  /\ UNCHANGED <<exOptions, exManifest, exTarget, exStaging, exError, restOfExport>>

\* remove(staging) throws inside finally: its error leaves the action
FinallyRemoveFails ==
  /\ exPc = "finally"
  /\ finallyRemoves(exStaging)
  /\ exStaging \in exDirs
  /\ exPc' = "done"
  /\ exCalls' = exCalls \cup {"remove"}
  /\ exOutcome' = Threw("remove-failed")
  /\ UNCHANGED <<exOptions, exManifest, exTarget, exStaging, exDirs, exError,
                 restOfExport>>

NextExport ==
  \/ LoadProject
  \/ LoadProjectFails
  \/ ChooseTarget
  \/ FetchDependencies
  \/ FetchDependenciesFails
  \/ ChooseStaging
  \/ EnsureStaging
  \/ EnsureStagingFails
  \/ EmptyStaging
  \/ EmptyStagingFails
  \/ ExportTo
  \/ ExportToFails
  \/ ExportTarget
  \/ ExportTargetFails
  \/ Finally
  \/ FinallyRemoveFails

SpecExport == InitExport /\ [][NextExport]_vars

exited == exPc = "done"

NameList == <<"A", "B", "C", "D">>
ComponentNames == {NameList[i] : i \in 1..MaxComponents}
\* "C" is a form: its file has a binary sidecar
filenameOf(name) ==
  CASE name = "A" -> "A.bas" [] name = "B" -> "B.bas" [] name = "C" -> "C.frm"
    [] OTHER -> "D.cls"
binaryPathOf(name) == IF name = "C" THEN <<"C.frx">> ELSE NoPath

Absent == <<>>

\* dirname(path) of utils/path
dirname(path) ==
  LET slashes == {i \in 1..Len(path) : path[i] = "/"}
      cut == CHOOSE i \in slashes : \A j \in slashes : j <= i
  IN  IF slashes = {} THEN <<".">> ELSE IF cut = 1 THEN <<"/">> ELSE SubSeq(path, 1, cut - 1)

addedPathNoFilename(dir, component) == join(dir, <<"src">>)

\* line 29: join(project.paths.dir, 'src', component.filename)
addedPath(dir, component) == join(join(dir, <<"src">>), <<component.filename>>)

\* line 75: join(dir, component.binary_path) with dir = dirname(path)
binaryPath(path, component) == join(dirname(path), component.binary_path)

Component(name, path) ==
  [name |-> name, filename |-> filenameOf(name), path |-> path,
   code |-> <<"code", name>>, binary_path |-> binaryPathOf(name),
   binary |-> <<"binary", name>>]

SrcPaths ==
  {addedPath(ProjectDir, Component(n, NoPath)) : n \in ComponentNames}
    \cup {binaryPath(addedPath(ProjectDir, Component(n, NoPath)), Component(n, NoPath)) :
            n \in {m \in ComponentNames : binaryPathOf(m) # NoPath}}

\* Array.prototype.findIndex, counting from 0; -1 when no entry matches
RECURSIVE findIndexFrom(_, _, _)
findIndexFrom(src, name, i) ==
  IF i > Len(src) THEN -1
  ELSE IF src[i].name = name THEN i - 1
  ELSE findIndexFrom(src, name, i + 1)

findIndex(src, name) == findIndexFrom(src, name, 1)

\* Array.prototype.splice(index, 1): a negative index counts from the end
splice(list, index) ==
  LET start == IF index < 0
                 THEN (IF Len(list) + index < 0 THEN 0 ELSE Len(list) + index)
                 ELSE (IF index > Len(list) THEN Len(list) ELSE index)
  IN  IF start >= Len(list) THEN list
      ELSE SubSeq(list, 1, start) \o SubSeq(list, start + 2, Len(list))

\* lines 50-57: one entry pushed per added component
RECURSIVE pushAdded(_, _, _)
pushAdded(src, added, dir) ==
  IF added = <<>> THEN src
  ELSE pushAdded(Append(src, [name |-> Head(added).name,
                              path |-> join(dir, <<"src", "/", Head(added).filename>>)]),
                 Tail(added), dir)

\* lines 58-64: one splice per removed component
RECURSIVE spliceRemoved(_, _)
spliceRemoved(src, removed) ==
  IF removed = <<>> THEN src
  ELSE spliceRemoved(splice(src, findIndex(src, Head(removed).name)), Tail(removed))

updateManifestSplicesOnce(src, changeset, dir) ==
  splice(pushAdded(src, changeset.added, dir), findIndex(src, "none"))

\* lines 48-67: project.manifest.src after updateManifest
updateManifest(src, changeset, dir) ==
  spliceRemoved(pushAdded(src, changeset.added, dir), changeset.removed)

\* the changes handed to applyChanges: addSource for each added component,
\* then removeSource for each removed component
manifestChanges(changeset) ==
  [i \in 1..Len(changeset.added) |-> <<"addSource", changeset.added[i].name>>]
    \o [i \in 1..Len(changeset.removed) |-> <<"removeSource", changeset.removed[i].name>>]

\* The inputs: every component name is absent from the project, kept as it
\* is, changed, added or removed; a component of the project has its file at
\* the path of its manifest entry, which is the file name of its own name or
\* of the next name; a removed component may have lost its manifest entry.
Roles == {"absent", "kept", "changed", "added", "removed"}

nextName(name) ==
  LET i == CHOOSE k \in 1..MaxComponents : NameList[k] = name
  IN  NameList[(i % MaxComponents) + 1]

Layouts == {[n \in ComponentNames |-> n], [n \in ComponentNames |-> nextName(n)]}

Ascending == SubSeq(NameList, 1, MaxComponents)
Descending == [i \in 1..MaxComponents |-> NameList[MaxComponents + 1 - i]]

existingPath(layout, name) == addedPath(ProjectDir, Component(layout[name], NoPath))

batch(order, roles, layout, role) ==
  LET names == SelectSeq(order, LAMBDA n : roles[n] = role)
  IN  [i \in 1..Len(names) |->
         Component(names[i], IF role = "added" THEN NoPath
                             ELSE existingPath(layout, names[i]))]

changesetOf(order, roles, layout) ==
  [changed |-> batch(order, roles, layout, "changed"),
   added |-> batch(order, roles, layout, "added"),
   removed |-> batch(order, roles, layout, "removed")]

filesOf(roles, layout) ==
  [p \in SrcPaths |->
     LET owners == {n \in ComponentNames :
                      roles[n] \in {"kept", "changed", "removed"} /\ existingPath(layout, n) = p}
         forms == {n \in ComponentNames :
                     /\ roles[n] \in {"kept", "changed", "removed"}
                     /\ binaryPathOf(n) # NoPath
                     /\ binaryPath(existingPath(layout, n), Component(n, NoPath)) = p}
     IN  IF owners # {} THEN <<"old", CHOOSE n \in owners : TRUE>>
         ELSE IF forms # {} THEN <<"oldbinary", CHOOSE n \in forms : TRUE>>
         ELSE Absent]

srcOf(roles, layout, listed) ==
  LET names == SelectSeq(Ascending,
                         LAMBDA n : roles[n] \in {"kept", "changed"}
                                      \/ (roles[n] = "removed" /\ listed))
  IN  [i \in 1..Len(names) |-> [name |-> names[i], path |-> existingPath(layout, names[i])]]

progressOf(changeset) ==
  [changed |-> [i \in 1..Len(changeset.changed) |-> "ready"],
   added |-> [i \in 1..Len(changeset.added) |-> "todo"],
   removed |-> [i \in 1..Len(changeset.removed) |-> "ready"]]

InitApply ==
  /\ \E roles \in [ComponentNames -> Roles], layout \in Layouts,
        order \in {Ascending, Descending}, listed \in BOOLEAN :
       /\ apChangeset = changesetOf(order, roles, layout)
       /\ apFiles = filesOf(roles, layout)
       /\ apSrc = srcOf(roles, layout, listed)
       /\ apFiles0 = filesOf(roles, layout)
       /\ apSrc0 = srcOf(roles, layout, listed)
       /\ apProgress = progressOf(changesetOf(order, roles, layout))
  /\ apPatches = <<>>
  /\ apPhase = "changed"
  /\ apTouched = {}
  /\ LockIdle /\ PairIdle /\ TomlIdle /\ ReadIdle /\ DownloadIdle /\ ExportIdle

restOfApply == <<lockVars, pairVars, tomlVars, readVars, dlVars, exVars, apFiles0, apSrc0>>

items == apChangeset[apPhase]
step == apProgress[apPhase]

\* lines 29-30: the path of an added component is computed and assigned
AssignPath ==
  /\ apPhase = "added"
  /\ \E i \in 1..Len(items) :
       /\ step[i] = "todo"
       /\ apChangeset' = [apChangeset EXCEPT !.added[i].path = addedPath(ProjectDir, items[i])]
       /\ apProgress' = [apProgress EXCEPT !.added[i] = "ready"]
  /\ UNCHANGED <<apFiles, apSrc, apPatches, apPhase, apTouched, restOfApply>>

\* line 71: await ensureDir(dir)
WriteComponentEnsureDir ==
  /\ apPhase \in {"changed", "added"}
  /\ \E i \in 1..Len(items) :
       /\ step[i] = "ready"
       /\ apProgress' = [apProgress EXCEPT ![apPhase][i] = "ensured"]
  /\ UNCHANGED <<apChangeset, apFiles, apSrc, apPatches, apPhase, apTouched, restOfApply>>

\* line 72: await writeFile(path, component.code)
WriteComponentCode ==
  /\ apPhase \in {"changed", "added"}
  /\ \E i \in 1..Len(items) :
       /\ step[i] = "ensured"
       /\ apFiles' = [apFiles EXCEPT ![items[i].path] = items[i].code]
       /\ apTouched' = apTouched \cup {items[i].path}
       /\ apProgress' = [apProgress EXCEPT ![apPhase][i] =
                           IF items[i].binary_path # NoPath THEN "coded" ELSE "done"]
  /\ UNCHANGED <<apChangeset, apSrc, apPatches, apPhase, restOfApply>>

\* lines 74-76: the binary sidecar is written next to the component
WriteComponentBinary ==
  /\ apPhase \in {"changed", "added"}
  /\ \E i \in 1..Len(items) :
       /\ step[i] = "coded"
       /\ apFiles' = [apFiles EXCEPT ![binaryPath(items[i].path, items[i])] = items[i].binary]
       /\ apTouched' = apTouched \cup {binaryPath(items[i].path, items[i])}
       /\ apProgress' = [apProgress EXCEPT ![apPhase][i] = "done"]
  /\ UNCHANGED <<apChangeset, apSrc, apPatches, apPhase, restOfApply>>

\* line 40: await remove(component.details.path)
RemoveComponent ==
  /\ apPhase = "removed"
  /\ \E i \in 1..Len(items) :
       /\ step[i] = "ready"
       /\ apFiles' = [apFiles EXCEPT ![items[i].path] = Absent]
       /\ apTouched' = apTouched \cup {items[i].path}
       /\ apProgress' = [apProgress EXCEPT !.removed[i] = "done"]
  /\ UNCHANGED <<apChangeset, apSrc, apPatches, apPhase, restOfApply>>

\* await parallel(...) returns once every item of the batch is done
BatchDone ==
  /\ apPhase \in {"changed", "added", "removed"}
  /\ \A i \in 1..Len(items) : step[i] = "done"
  /\ apPhase' = CASE apPhase = "changed" -> "added"
                  [] apPhase = "added" -> "removed"
                  [] OTHER -> "manifest"
  /\ UNCHANGED <<apChangeset, apFiles, apSrc, apPatches, apProgress, apTouched, restOfApply>>

\* line 45: await updateManifest(project, changeset)
UpdateManifest ==
  /\ apPhase = "manifest"
  /\ apSrc' = updateManifest(apSrc, apChangeset, ProjectDir)
  /\ apPatches' = manifestChanges(apChangeset)
  /\ apPhase' = "done"
  /\ UNCHANGED <<apChangeset, apFiles, apProgress, apTouched, restOfApply>>

NextApply ==
  \/ AssignPath
  \/ WriteComponentEnsureDir
  \/ WriteComponentCode
  \/ WriteComponentBinary
  \/ RemoveComponent
  \/ BatchDone
  \/ UpdateManifest

SpecApply == InitApply /\ [][NextApply]_vars

written(kind) == \E i \in 1..Len(apChangeset[kind]) : apProgress[kind][i] \in {"coded", "done"}
completed(kind) == \A i \in 1..Len(apChangeset[kind]) : apProgress[kind][i] = "done"

\* C9 as stated: every removal completes before any added component is
\* written, every add completes before any changed component is written, and
\* the manifest is updated only after all three.
C9_ApplyOrder ==
  /\ written("added") => completed("removed")
  /\ written("changed") => completed("added")
  /\ apPhase = "done" => completed("removed") /\ completed("added") /\ completed("changed")

emptyChangeset ==
  apChangeset.changed = <<>> /\ apChangeset.added = <<>> /\ apChangeset.removed = <<>>

\* C10: with an empty changeset applyChangeset writes and removes no file,
\* leaves every file as it was, leaves the manifest's src[] list as it was and
\* hands no change to applyChanges.
C10_EmptyChangesetNoOp ==
  emptyChangeset =>
    /\ apTouched = {}
    /\ apFiles = apFiles0
    /\ apSrc = apSrc0
    /\ apPatches = <<>>

C10_Witness ==
  /\ emptyChangeset
  /\ apPhase = "done"
  /\ Len(apSrc0) >= 2
  /\ apSrc = apSrc0

\* the target has been chosen, or the action has failed choosing it
targetDecided ==
  /\ exPc \notin {"loadProject", "chooseTarget"}
  /\ exOutcome # Threw("manifest-not-found")

untouched ==
  /\ exited
  /\ exStaging = NoPath
  /\ exCalls \cap {"fetchDependencies", "ensureDir", "emptyDir", "exportTo",
                   "exportTarget", "remove"} = {}

\* C11: without --target and without a default target the action fails with
\* export-no-target; with a default target and a --target of another type it
\* fails with export-no-matching; with a default target and --target absent
\* or equal to its type the manifest's target is used; without a default
\* target and with --target a blank target of that type at targets/<type>,
\* named after the project, is used.  In the two failing cases nothing is
\* fetched, no staging directory is created or removed and the bridge is not
\* called.
C11_TargetChoice ==
  targetDecided =>
    LET given == has(exOptions, "target")
        default == has(exManifest, "target")
    IN  /\ ~given /\ ~default =>
             exOutcome = Threw("export-no-target") /\ untouched
        /\ (default /\ given) /\ exOptions.target # exManifest.target.type =>
             exOutcome = Threw("export-no-matching") /\ untouched
        /\ default /\ (~given \/ exOptions.target = exManifest.target.type) =>
             exTarget = exManifest.target
        /\ ~default /\ given =>
             /\ exTarget.type = exOptions.target
             /\ exTarget.name = exManifest.name
             /\ exTarget.path = <<"targets", "/", exOptions.target>>
             /\ exTarget.blank

C11_Witness ==
  /\ exited
  /\ has(exManifest, "target") /\ has(exOptions, "target")
  /\ exOptions.target # exManifest.target.type
  /\ exOutcome = Threw("export-no-matching")

\* the path an item of a batch works on: an added component gets its path
\* when its callback starts
itemPath(kind, item) == IF kind = "added" THEN addedPath(ProjectDir, item) ELSE item.path

\* the paths one item of a batch writes or removes
touches(kind, item) ==
  {itemPath(kind, item)}
    \cup (IF kind # "removed" /\ item.binary_path # NoPath
            THEN {binaryPath(itemPath(kind, item), item)} ELSE {})

\* the files after the items of a batch have run one after the other, in the
\* order of the list
RECURSIVE inListOrder(_, _, _)
inListOrder(files, kind, list) ==
  IF list = <<>> THEN files
  ELSE LET item == Head(list)
           path == itemPath(kind, item)
           coded == [files EXCEPT ![path] = IF kind = "removed" THEN Absent ELSE item.code]
           done == IF kind # "removed" /\ item.binary_path # NoPath
                     THEN [coded EXCEPT ![binaryPath(path, item)] = item.binary]
                     ELSE coded
       IN  inListOrder(done, kind, Tail(list))

afterChanged == inListOrder(apFiles0, "changed", apChangeset.changed)
afterAdded == inListOrder(afterChanged, "added", apChangeset.added)
afterRemoved == inListOrder(afterAdded, "removed", apChangeset.removed)

\* C12: in each batch any two items touch disjoint paths, and whatever the
\* interleaving of the items of a batch, the files once the batch is done
\* are those of running its items one after the other.
C12_FanOutCommutes ==
  /\ \A kind \in {"changed", "added", "removed"} :
       \A i, j \in 1..Len(apChangeset[kind]) :
         i # j => touches(kind, apChangeset[kind][i]) \cap touches(kind, apChangeset[kind][j]) = {}
  /\ apPhase = "changed" /\ completed("changed") => apFiles = afterChanged
  /\ apPhase = "added" /\ completed("added") => apFiles = afterAdded
  /\ apPhase = "removed" /\ completed("removed") => apFiles = afterRemoved
  /\ apPhase \in {"manifest", "done"} => apFiles = afterRemoved

C12_Witness ==
  /\ apPhase = "done"
  /\ Len(apChangeset.changed) >= 2
  /\ \E i \in 1..Len(apChangeset.changed) : apChangeset.changed[i].binary_path # NoPath
  /\ apFiles = afterRemoved
  /\ apFiles # apFiles0

\* remove(staging) was called in the finally block and threw: the directory
\* it was called on is still there
removeFailed == exited /\ "remove" \in exCalls /\ exStaging \in exDirs

\* C13 as stated: when exportTo or exportTarget has failed and the removal
\* of the staging directory fails too, the action exits with the error of
\* exportTo or exportTarget.
C13_OriginalErrorSurfaces ==
  removeFailed /\ exError \in {"target-export-failed", "export-target-failed"} =>
    exOutcome = Threw(exError)

namesOf(list) == {list[i].name : i \in 1..Len(list)}

\* C14 as stated: after applyChangeset the src[] list is the previous entries
\* whose name is not the name of a removed component, in their previous
\* order, followed by one entry per added component, whose path is
\* <project dir>/src/<filename>, the path its file was written to.
C14_ManifestSrc ==
  apPhase = "done" =>
    apSrc =
      SelectSeq(apSrc0, LAMBDA source : source.name \notin namesOf(apChangeset.removed))
        \o [i \in 1..Len(apChangeset.added) |->
              [name |-> apChangeset.added[i].name, path |-> apChangeset.added[i].path]]

\* download with the event loop running: as long as a step of some call can
\* be taken (a callback is due, a response, a chunk or an error arrives), one
\* is taken
SpecDownloadLive == InitDownload /\ [][NextDownload]_vars /\ WF_vars(NextDownload)

\* C15 as stated: the promise returned by the first call of download is
\* eventually resolved or rejected.
C15_EventuallySettles == <>settled(dlCalls[1])

=============================================================================
